---- MODULE Spec2Model ----
(***************************************************************************)
(* LocalCast viewer client (src/src/App.jsx): the session state tracker,   *)
(* the frame handler with its throughput counter, the audio playback       *)
(* scheduler and the audio activation gate, as one state machine, with the  *)
(* two ScreenView components (still-image canvas and H.264 decoder) that   *)
(* render its state.                                                       *)
(*                                                                         *)
(* Times are integer milliseconds: the wall clock (Date.now) and the       *)
(* device clock (AudioContext.currentTime, seconds in the source) are two  *)
(* separate variables.  A socket event is one atomic step: React applies   *)
(* the state updates of one handler together.                              *)
(***************************************************************************)
EXTENDS Integers, Sequences, FiniteSets, TLC

(* ---------------- bounds of the model ---------------- *)
MaxCtx   == 2      \* AudioContext instances created in one behaviour
MaxTime  == 120    \* device clock horizon (ms)
MaxNow   == 2400   \* wall clock horizon (ms)
MaxCount == 3      \* frames counted in one throughput window
MaxLog   == 2      \* newest log entries kept (the source keeps 50 and shows 5)
MaxMount == 2      \* surfaces (canvas / video elements) mounted in one behaviour
MaxDecoders == 2   \* JMuxer instances created in one behaviour
MaxLoading == 1    \* image decodes in flight at once
MaxGrid  == 7      \* grid points of the start-time inputs, BUFFER_TIME apart

(* ---------------- program constants ---------------- *)
BUFFER_TIME      == 50      \* App.jsx:244  const BUFFER_TIME = 0.05
MAX_DRIFT        == 200     \* App.jsx:257  currentTime + 0.2
FPS_WINDOW       == 1000    \* App.jsx:122  elapsed >= 1000
DefaultChannels  == 2       \* App.jsx:225  data.channels || 2
DefaultRate      == 44100   \* App.jsx:226  data.sampleRate || 44100

(* ---------------- input domains ---------------- *)
Null        == "null"
NoCtx       == 0
NoNode      == 0
NoDecoder   == 0
Ids         == {"abc123", "def456"}
Images      == {"P1", "P2"}
CtxIds      == 1..MaxCtx
DeviceTicks == {20, 100}
WallTicks   == {500, 700}
ServerFps   == {0, 30}
ErrorTexts  == {"capture failed"}
\* audio chunks: number of int16 samples in the payload (0, 20ms, 100ms of
\* stereo 44.1kHz PCM)
SampleCounts == {0, 1764, 8820}

VARIABLES
  isConnected,        \* App.jsx:11
  isSharing,          \* App.jsx:12
  currentFrame,       \* App.jsx:13
  clientId,           \* App.jsx:15
  fps,                \* App.jsx:16
  currentSharerId,    \* App.jsx:29
  isHost,             \* App.jsx:32
  isAudioEnabled,     \* App.jsx:35
  audioUnlocked,      \* App.jsx:37
  audioContextRef,    \* App.jsx:38  NoCtx or the id of the live instance
  nextPlayTimeRef,    \* App.jsx:39
  isAudioEnabledRef,  \* App.jsx:41
  currentSharerIdRef, \* App.jsx:43
  clientIdRef,        \* App.jsx:44
  audioInitializedRef,\* App.jsx:45
  fpsCounterRef,      \* App.jsx:48  [count, lastTime]
  ctxState,           \* AudioContext.state of every instance ever created
  ctxCount,           \* number of instances created so far
  pendingResume,      \* resume() promises not yet settled
  currentTime,        \* device clock of the live AudioContext (ms)
  now,                \* Date.now() (ms since mount)
  greeted,            \* the server's 'connected' greeting arrived on this connection
  last,               \* history: the step that led to this state
  lastDuration,       \* history: duration of the chunk last handed to source.start
  chunkNo,            \* history: chunks scheduled on the live pipeline (capped at 3)
  onScenarioC,        \* history: the chunks so far are 20ms chunks arriving at 0,20,40
  frameBeforeStart,   \* history: currentFrame was received before the latest sharing_started
  handover,           \* history: the latest sharing_started named another sharer than the one before
  lastStartedId,      \* history: sharer_id of the latest sharing_started
  stoppedSinceStart,  \* history: a sharing_stopped arrived after the latest sharing_started
  hadFrameAtStart,    \* history: a frame was displayed when the latest sharing_started arrived
  unlockCalls,        \* history: unlockAudio calls on the live pipeline (capped at 2)
  messages,           \* App.jsx:17  the newest MaxLog entries of the log
  viewFrame,          \* ScreenView: currentFrame prop of the last commit
  viewSharing,        \* ScreenView: isSharing prop of the last commit
  videoRef,           \* H.264 ScreenView: the mounted <video> element, or NoNode
  jmuxerRef,          \* H.264 ScreenView: the live JMuxer instance, or NoDecoder
  jmuxerNode,         \* the <video> element the live JMuxer instance was created on
  decoderCount,       \* JMuxer instances created so far
  fed,                \* payloads fed to the live JMuxer instance, in order
  received,           \* history: payloads received since sharing last started
  canvasRef,          \* JPEG ScreenView: the mounted <canvas> element, or NoNode
  canvasPixels,       \* what is drawn on the mounted canvas (Null: blank)
  rafPending,         \* JPEG ScreenView: the requested animation frame (at most one)
  imgLoading,         \* JPEG ScreenView: image decodes in flight
  mountCount,         \* surfaces mounted so far
  showSourcePicker    \* App: the source picker dialog is open

sessionVars == <<isConnected, isSharing, currentFrame, clientId, currentSharerId,
                 isHost, currentSharerIdRef, clientIdRef, greeted>>
frameHist   == <<frameBeforeStart, handover, lastStartedId, stoppedSinceStart,
                 hadFrameAtStart>>
fpsVars     == <<fps, fpsCounterRef>>
gateVars    == <<isAudioEnabled, isAudioEnabledRef, audioUnlocked, audioContextRef,
                 ctxState, ctxCount, pendingResume, unlockCalls>>
clockVars   == <<nextPlayTimeRef, audioInitializedRef, lastDuration, chunkNo, onScenarioC>>
h264Vars    == <<videoRef, jmuxerRef, jmuxerNode, decoderCount, fed>>
jpegVars    == <<canvasRef, canvasPixels, rafPending, imgLoading>>
viewVars    == <<viewFrame, viewSharing, mountCount, h264Vars, jpegVars>>

vars == <<isConnected, isSharing, currentFrame, clientId, fps, currentSharerId, isHost,
          isAudioEnabled, audioUnlocked, audioContextRef, nextPlayTimeRef,
          isAudioEnabledRef, currentSharerIdRef, clientIdRef, audioInitializedRef,
          fpsCounterRef, ctxState, ctxCount, pendingResume, currentTime, now, greeted,
          last, lastDuration, chunkNo, onScenarioC, frameBeforeStart, handover,
          lastStartedId, stoppedSinceStart, hadFrameAtStart, unlockCalls,
          messages, viewFrame, viewSharing, videoRef, jmuxerRef, jmuxerNode,
          decoderCount, fed, received, canvasRef, canvasPixels, rafPending,
          imgLoading, mountCount, showSourcePicker>>

(* State after the first render and the mount effect (App.jsx:10-64). *)
Init ==
  /\ isConnected = FALSE
  /\ isSharing = FALSE
  /\ currentFrame = Null
  /\ clientId = ""
  /\ fps = 0
  /\ currentSharerId = Null
  /\ isHost = FALSE
  /\ isAudioEnabled = TRUE
  /\ audioUnlocked = FALSE
  /\ audioContextRef = NoCtx
  /\ nextPlayTimeRef = 0
  /\ isAudioEnabledRef = TRUE
  /\ currentSharerIdRef = Null
  /\ clientIdRef = ""
  /\ audioInitializedRef = FALSE
  /\ fpsCounterRef = [count |-> 0, lastTime |-> 0]
  /\ ctxState = [c \in CtxIds |-> "none"]
  /\ ctxCount = 0
  /\ pendingResume = {}
  /\ currentTime = 0
  /\ now = 0
  /\ greeted = FALSE
  /\ last = "mount"
  /\ lastDuration = 0
  /\ chunkNo = 0
  /\ onScenarioC = TRUE
  /\ frameBeforeStart = FALSE
  /\ handover = FALSE
  /\ lastStartedId = Null
  /\ stoppedSinceStart = FALSE
  /\ hadFrameAtStart = FALSE
  /\ unlockCalls = 0
  /\ messages = <<>>
  /\ viewFrame = Null
  /\ viewSharing = FALSE
  /\ videoRef = NoNode
  /\ jmuxerRef = NoDecoder
  /\ jmuxerNode = NoNode
  /\ decoderCount = 0
  /\ fed = <<>>
  /\ received = <<>>
  /\ canvasRef = NoNode
  /\ canvasPixels = Null
  /\ rafPending = {}
  /\ imgLoading = {}
  /\ mountCount = 0
  /\ showSourcePicker = FALSE

(* ---------------- session state tracker ---------------- *)

\* The server greets every new connection with one 'connected' event before
\* any other event; server events reach the handlers only while the socket is
\* connected.  Payloads of the greeting: the sharing flag agrees with the sharer.
ConnectedData ==
  { [client_id |-> c, current_sharer |-> s, is_host |-> h, is_sharing |-> (s # Null)] :
      c \in Ids, s \in Ids \cup {Null}, h \in BOOLEAN }

\* the last n entries of a sequence: slice(-n)
LastN(seq, n) == IF Len(seq) <= n THEN seq ELSE SubSeq(seq, Len(seq) - n + 1, Len(seq))

\* addMessage: append and keep the newest entries (timestamps left out)
addMessage(text, type) ==
  messages' = LastN(Append(messages, [text |-> text, type |-> type]), MaxLog)

\* newSocket.on('connect')
connect ==
  /\ ~isConnected
  /\ isConnected' = TRUE
  /\ greeted' = FALSE
  /\ last' = "connect"
  /\ UNCHANGED <<isSharing, currentFrame, clientId, currentSharerId, isHost,
                 currentSharerIdRef, clientIdRef>>
  /\ UNCHANGED <<frameHist, fpsVars, gateVars, clockVars, currentTime, now>>
  /\ UNCHANGED <<messages, received, viewVars, showSourcePicker>>

\* newSocket.on('disconnect')
disconnect ==
  /\ isConnected
  /\ isConnected' = FALSE
  /\ isSharing' = FALSE
  /\ greeted' = FALSE
  /\ last' = "disconnect"
  /\ UNCHANGED <<currentFrame, clientId, currentSharerId, isHost,
                 currentSharerIdRef, clientIdRef>>
  /\ UNCHANGED <<frameHist, fpsVars, gateVars, clockVars, currentTime, now>>
  /\ UNCHANGED <<messages, received, viewVars, showSourcePicker>>

\* newSocket.on('connected')
connected(data) ==
  /\ isConnected /\ ~greeted
  /\ greeted' = TRUE
  /\ clientId' = data.client_id
  /\ clientIdRef' = data.client_id
  /\ currentSharerId' = data.current_sharer
  /\ currentSharerIdRef' = data.current_sharer
  /\ isHost' = data.is_host
  /\ isSharing' = IF data.is_sharing THEN TRUE ELSE isSharing
  /\ last' = "connected"
  /\ UNCHANGED <<isConnected, currentFrame>>
  /\ UNCHANGED <<frameHist, fpsVars, gateVars, clockVars, currentTime, now>>
  /\ addMessage(IF data.is_host THEN "connected (host)" ELSE "connected (client)", "info")
  /\ UNCHANGED <<received, viewVars, showSourcePicker>>

FrameAfterStart_kept == currentFrame

\* setCurrentFrame(null) of 'sharing_started': the frame shown under the new sharer
FrameAfterStart == Null

\* newSocket.on('sharing_started')
sharing_started(data) ==
  /\ isConnected /\ greeted
  /\ isSharing' = TRUE
  /\ currentSharerId' = data.sharer_id
  /\ currentSharerIdRef' = data.sharer_id
  /\ currentFrame' = FrameAfterStart
  /\ last' = "sharing_started"
  /\ frameBeforeStart' = TRUE
  /\ handover' = (lastStartedId # Null /\ lastStartedId # data.sharer_id)
  /\ lastStartedId' = data.sharer_id
  /\ stoppedSinceStart' = FALSE
  /\ hadFrameAtStart' = (currentFrame # Null)
  /\ UNCHANGED <<isConnected, clientId, isHost, clientIdRef, greeted>>
  /\ UNCHANGED <<fpsVars, gateVars, clockVars, currentTime, now>>
  /\ addMessage("sharing started", "success")
  /\ received' = <<>>
  /\ showSourcePicker' = FALSE
  /\ UNCHANGED viewVars

sharing_stopped_noRef ==
  /\ isConnected /\ greeted
  /\ isSharing' = FALSE
  /\ currentFrame' = Null
  /\ currentSharerId' = Null
  /\ currentSharerIdRef' = currentSharerIdRef
  /\ last' = "sharing_stopped"
  /\ stoppedSinceStart' = TRUE
  /\ UNCHANGED <<isConnected, clientId, isHost, clientIdRef, greeted>>
  /\ UNCHANGED <<frameBeforeStart, handover, lastStartedId, hadFrameAtStart>>
  /\ UNCHANGED <<fpsVars, gateVars, clockVars, currentTime, now>>
  /\ addMessage("sharing stopped", "warning")
  /\ received' = <<>>
  /\ rafPending' = { [r EXCEPT !.stale = TRUE] : r \in rafPending }
  /\ imgLoading' = { [l EXCEPT !.stale = TRUE] : l \in imgLoading }
  /\ UNCHANGED <<viewFrame, viewSharing, mountCount, h264Vars, canvasRef, canvasPixels,
                 showSourcePicker>>

\* newSocket.on('sharing_stopped')
sharing_stopped ==
  /\ isConnected /\ greeted
  /\ isSharing' = FALSE
  /\ currentFrame' = Null
  /\ currentSharerId' = Null
  /\ currentSharerIdRef' = Null
  /\ last' = "sharing_stopped"
  /\ stoppedSinceStart' = TRUE
  /\ UNCHANGED <<isConnected, clientId, isHost, clientIdRef, greeted>>
  /\ UNCHANGED <<frameBeforeStart, handover, lastStartedId, hadFrameAtStart>>
  /\ UNCHANGED <<fpsVars, gateVars, clockVars, currentTime, now>>
  /\ addMessage("sharing stopped", "warning")
  /\ received' = <<>>
  /\ rafPending' = { [r EXCEPT !.stale = TRUE] : r \in rafPending }
  /\ imgLoading' = { [l EXCEPT !.stale = TRUE] : l \in imgLoading }
  /\ UNCHANGED <<viewFrame, viewSharing, mountCount, h264Vars, canvasRef, canvasPixels,
                 showSourcePicker>>

(* ---------------- frame handler and throughput counter ---------------- *)

MathRound_floor(a, b) == a \div b

\* Math.round(a / b) for a >= 0, b > 0: floor(a/b + 1/2)
MathRound(a, b) == (2 * a + b) \div (2 * b)

\* the Data URL the handler builds from the payload
DataUrl(image) == "data:image/jpeg;base64," \o image

frame_gated(data) ==
  /\ isConnected /\ greeted
  /\ fpsCounterRef.count < MaxCount
  /\ currentFrame' = IF audioUnlocked THEN DataUrl(data.image) ELSE currentFrame
  /\ LET count   == fpsCounterRef.count + 1
         elapsed == now - fpsCounterRef.lastTime
     IN IF elapsed >= FPS_WINDOW
          THEN /\ fps' = MathRound(count * 1000, elapsed)
               /\ fpsCounterRef' = [count |-> 0, lastTime |-> now]
               /\ last' = "frame:published"
          ELSE /\ fps' = fps
               /\ fpsCounterRef' = [fpsCounterRef EXCEPT !.count = count]
               /\ last' = "frame"
  /\ frameBeforeStart' = FALSE
  /\ UNCHANGED <<isConnected, isSharing, clientId, currentSharerId, isHost,
                 currentSharerIdRef, clientIdRef, greeted>>
  /\ UNCHANGED <<handover, lastStartedId, stoppedSinceStart, hadFrameAtStart>>
  /\ UNCHANGED <<gateVars, clockVars, currentTime, now>>
  /\ received' = IF isSharing THEN Append(received, data.image) ELSE received
  /\ UNCHANGED <<messages, viewVars, showSourcePicker>>

\* newSocket.on('frame'); frameInfo (width, height, size) is display-only and
\* left out.  The counter is capped at MaxCount frames per window.
frame(data) ==
  /\ isConnected /\ greeted
  /\ fpsCounterRef.count < MaxCount
  /\ currentFrame' = DataUrl(data.image)
  /\ LET count   == fpsCounterRef.count + 1
         elapsed == now - fpsCounterRef.lastTime
     IN IF elapsed >= FPS_WINDOW
          THEN /\ fps' = MathRound(count * 1000, elapsed)
               /\ fpsCounterRef' = [count |-> 0, lastTime |-> now]
               /\ last' = "frame:published"
          ELSE /\ fps' = fps
               /\ fpsCounterRef' = [fpsCounterRef EXCEPT !.count = count]
               /\ last' = "frame"
  /\ frameBeforeStart' = FALSE
  /\ UNCHANGED <<isConnected, isSharing, clientId, currentSharerId, isHost,
                 currentSharerIdRef, clientIdRef, greeted>>
  /\ UNCHANGED <<handover, lastStartedId, stoppedSinceStart, hadFrameAtStart>>
  /\ UNCHANGED <<gateVars, clockVars, currentTime, now>>
  /\ received' = IF isSharing THEN Append(received, data.image) ELSE received
  /\ UNCHANGED <<messages, viewVars, showSourcePicker>>

\* newSocket.on('stats'): a falsy data.fps (0) is ignored
stats(data) ==
  /\ isConnected /\ greeted
  /\ fps' = IF data.fps # 0 THEN data.fps ELSE fps
  /\ last' = "stats"
  /\ UNCHANGED <<sessionVars, frameHist, fpsCounterRef, gateVars, clockVars, currentTime, now>>
  /\ UNCHANGED <<messages, received, viewVars, showSourcePicker>>

\* the wall clock advances between events
TickWall(dt) ==
  /\ now + dt <= MaxNow
  /\ now' = now + dt
  /\ last' = "tickWall"
  /\ UNCHANGED <<sessionVars, frameHist, fpsVars, gateVars, clockVars, currentTime>>
  /\ UNCHANGED <<messages, received, viewVars, showSourcePicker>>

(* ---------------- audio activation gate ---------------- *)

\* what `new AudioContext(...)` can do: start suspended (autoplay policy),
\* start running, or throw
CreateOutcomes == {"suspended", "running", "throws"}

Min(a, b) == IF a < b THEN a ELSE b

\* the history of the playback clock restarts with every reset of the clock
ClockHistoryReset ==
  /\ lastDuration' = 0
  /\ chunkNo' = 0
  /\ onScenarioC' = TRUE

UnlockProbe_onRequest(ctx, state) ==
  IF state = "suspended"
    THEN /\ pendingResume' = pendingResume \cup {[ctx |-> ctx, by |-> "unlock"]}
         /\ audioUnlocked' = TRUE
    ELSE /\ audioUnlocked' = (state = "running" \/ audioUnlocked)
         /\ pendingResume' = pendingResume

\* unlockAudio, after the instance exists: resume if suspended, report if running
UnlockProbe(ctx, state) ==
  IF state = "suspended"
    THEN /\ pendingResume' = pendingResume \cup {[ctx |-> ctx, by |-> "unlock"]}
         /\ audioUnlocked' = audioUnlocked
    ELSE IF state = "running"
      THEN /\ audioUnlocked' = TRUE
           /\ pendingResume' = pendingResume
      ELSE /\ audioUnlocked' = audioUnlocked
           /\ pendingResume' = pendingResume

UnlockMustCreate_always == TRUE

\* `if (!audioContextRef.current)` of unlockAudio
UnlockMustCreate == audioContextRef = NoCtx

\* unlockAudio: `created` is the outcome of the constructor when it is called
unlockAudio(created) ==
  /\ last' = "unlock"
  /\ IF UnlockMustCreate
       THEN /\ ctxCount < MaxCtx
            /\ IF created = "throws"
                 THEN UNCHANGED <<audioContextRef, ctxState, ctxCount, pendingResume,
                                  audioUnlocked, unlockCalls, clockVars, currentTime>>
                 ELSE /\ audioContextRef' = ctxCount + 1
                      /\ ctxCount' = ctxCount + 1
                      /\ ctxState' = [ctxState EXCEPT ![ctxCount + 1] = created]
                      /\ nextPlayTimeRef' = 0
                      /\ audioInitializedRef' = FALSE
                      /\ ClockHistoryReset
                      /\ currentTime' = 0
                      /\ unlockCalls' = 1
                      /\ UnlockProbe(ctxCount + 1, created)
       ELSE /\ UnlockProbe(audioContextRef, ctxState[audioContextRef])
            /\ unlockCalls' = Min(unlockCalls + 1, 2)
            /\ UNCHANGED <<audioContextRef, ctxState, ctxCount, clockVars, currentTime>>
  /\ UNCHANGED <<isAudioEnabled, isAudioEnabledRef>>
  /\ UNCHANGED <<sessionVars, frameHist, fpsVars, now>>
  /\ UNCHANGED <<messages, received, viewVars, showSourcePicker>>

\* ctx.resume().then(...): the device starts and the promise is fulfilled
ResumeFulfilled(p) ==
  /\ p \in pendingResume
  /\ ctxState[p.ctx] \in {"suspended", "running"}
  /\ ctxState' = [ctxState EXCEPT ![p.ctx] = "running"]
  /\ pendingResume' = pendingResume \ {p}
  /\ audioUnlocked' = IF p.by = "unlock" /\ ctxState'[p.ctx] = "running"
                        THEN TRUE ELSE audioUnlocked
  /\ last' = "resume:fulfilled"
  /\ UNCHANGED <<isAudioEnabled, isAudioEnabledRef, audioContextRef, ctxCount, unlockCalls>>
  /\ UNCHANGED <<sessionVars, frameHist, fpsVars, clockVars, currentTime, now>>
  /\ UNCHANGED <<messages, received, viewVars, showSourcePicker>>

\* ctx.resume() ... .catch(...): the promise is rejected (policy, device error,
\* closed instance); the handler only logs
ResumeRejected(p) ==
  /\ p \in pendingResume
  /\ pendingResume' = pendingResume \ {p}
  /\ last' = "resume:rejected"
  /\ UNCHANGED <<isAudioEnabled, isAudioEnabledRef, audioUnlocked, audioContextRef,
                 ctxState, ctxCount, unlockCalls>>
  /\ UNCHANGED <<sessionVars, frameHist, fpsVars, clockVars, currentTime, now>>
  /\ UNCHANGED <<messages, received, viewVars, showSourcePicker>>

ToggleOff_noReset ==
  /\ isAudioEnabled' = FALSE
  /\ isAudioEnabledRef' = FALSE
  /\ IF audioContextRef # NoCtx
       THEN /\ ctxState' = [ctxState EXCEPT ![audioContextRef] = "closed"]
            /\ audioContextRef' = NoCtx
       ELSE UNCHANGED <<ctxState, audioContextRef>>
  /\ UNCHANGED <<nextPlayTimeRef, audioInitializedRef, lastDuration, chunkNo, onScenarioC>>
  /\ unlockCalls' = 0
  /\ UNCHANGED <<audioUnlocked, ctxCount, pendingResume, currentTime, messages>>

\* toggleAudio, branch "disable"
ToggleOff ==
  /\ isAudioEnabled' = FALSE
  /\ isAudioEnabledRef' = FALSE
  /\ IF audioContextRef # NoCtx
       THEN /\ ctxState' = [ctxState EXCEPT ![audioContextRef] = "closed"]
            /\ audioContextRef' = NoCtx
       ELSE UNCHANGED <<ctxState, audioContextRef>>
  /\ nextPlayTimeRef' = 0
  /\ audioInitializedRef' = FALSE
  /\ ClockHistoryReset
  /\ unlockCalls' = 0
  /\ UNCHANGED <<audioUnlocked, ctxCount, pendingResume, currentTime, messages>>

\* toggleAudio, branch "enable"; a throwing constructor leaves the flag set
ToggleOn(created) ==
  /\ isAudioEnabled' = TRUE
  /\ isAudioEnabledRef' = TRUE
  /\ IF audioContextRef = NoCtx
       THEN /\ ctxCount < MaxCtx
            /\ IF created = "throws"
                 THEN UNCHANGED <<audioContextRef, ctxState, ctxCount, pendingResume,
                                  unlockCalls, clockVars, currentTime>>
                 ELSE /\ audioContextRef' = ctxCount + 1
                      /\ ctxCount' = ctxCount + 1
                      /\ ctxState' = [ctxState EXCEPT ![ctxCount + 1] = created]
                      /\ nextPlayTimeRef' = 0
                      /\ audioInitializedRef' = FALSE
                      /\ ClockHistoryReset
                      /\ currentTime' = 0
                      /\ unlockCalls' = 0
                      /\ pendingResume' =
                           IF created = "suspended"
                             THEN pendingResume \cup {[ctx |-> ctxCount + 1, by |-> "toggle"]}
                             ELSE pendingResume
       ELSE /\ pendingResume' =
                 IF ctxState[audioContextRef] = "suspended"
                   THEN pendingResume \cup {[ctx |-> audioContextRef, by |-> "toggle"]}
                   ELSE pendingResume
            /\ UNCHANGED <<audioContextRef, ctxState, ctxCount, unlockCalls,
                           clockVars, currentTime>>
  /\ UNCHANGED audioUnlocked
  /\ IF audioContextRef = NoCtx /\ created = "throws"
       THEN UNCHANGED messages
       ELSE addMessage("audio enabled", "success")

\* toggleAudio (socket is set at mount and never cleared)
toggleAudio(created) ==
  /\ isConnected
  /\ last' = "toggle"
  /\ IF isAudioEnabled THEN ToggleOff ELSE ToggleOn(created)
  /\ UNCHANGED <<sessionVars, frameHist, fpsVars, now>>
  /\ UNCHANGED <<received, viewVars, showSourcePicker>>

(* ---------------- audio playback scheduler ---------------- *)

AudioData == { [samples |-> n, channels |-> DefaultChannels, sampleRate |-> DefaultRate] :
                 n \in SampleCounts }

\* Math.floor(float32.length / channels)
FrameCount(data) == data.samples \div data.channels

\* audioBuffer.duration = frameCount / sampleRate, in ms
Duration(data) == (FrameCount(data) * 1000) \div data.sampleRate

StartTime_noResync(next, cur, initialized) ==
  IF ~initialized \/ next < cur THEN cur + BUFFER_TIME ELSE next

StartTime_reversed(next, cur, initialized) ==
  LET afterUnderrun == IF ~initialized \/ next > cur THEN cur + BUFFER_TIME ELSE next
  IN  IF afterUnderrun > cur + MAX_DRIFT THEN cur + BUFFER_TIME ELSE afterUnderrun

\* the two sequential ifs that pick the start time of a chunk
StartTime(next, cur, initialized) ==
  LET afterUnderrun == IF ~initialized \/ next < cur THEN cur + BUFFER_TIME ELSE next
  IN  IF afterUnderrun > cur + MAX_DRIFT THEN cur + BUFFER_TIME ELSE afterUnderrun

DeviceRunning_anyState == audioContextRef # NoCtx

\* the guard at the top of playAudioChunk
DeviceRunning == audioContextRef # NoCtx /\ ctxState[audioContextRef] = "running"

\* the chunks so far follow spec.md scenario C
ScenarioC == [arrivals |-> <<0, 20, 40>>, duration |-> 20]

NextPlayTime_noAdvance(startTime, data) == startTime

\* nextPlayTimeRef.current = startTime + audioBuffer.duration
NextPlayTime(startTime, data) == startTime + Duration(data)

\* playAudioChunk
playAudioChunk(data) ==
  IF DeviceRunning /\ FrameCount(data) > 0
    THEN LET startTime == StartTime(nextPlayTimeRef, currentTime, audioInitializedRef)
         IN /\ audioInitializedRef' = TRUE
            /\ nextPlayTimeRef' = NextPlayTime(startTime, data)
            /\ lastDuration' = Duration(data)
            /\ chunkNo' = Min(chunkNo + 1, Len(ScenarioC.arrivals))
            /\ onScenarioC' = /\ onScenarioC
                              /\ chunkNo < Len(ScenarioC.arrivals)
                              /\ Duration(data) = ScenarioC.duration
                              /\ currentTime = ScenarioC.arrivals[chunkNo + 1]
            /\ last' = "audio:scheduled"
    ELSE /\ UNCHANGED clockVars
         /\ last' = "audio:skipped"

IsSelfSharer_never == FALSE

IsSelfSharer_stale == Null = clientIdRef

\* the echo test of the 'audio' handler
IsSelfSharer == currentSharerIdRef = clientIdRef

\* newSocket.on('audio')
audio(data) ==
  /\ isConnected /\ greeted
  /\ IF ~isAudioEnabledRef \/ IsSelfSharer
       THEN /\ UNCHANGED clockVars
            /\ last' = "audio:dropped"
       ELSE playAudioChunk(data)
  /\ UNCHANGED <<sessionVars, frameHist, fpsVars, gateVars, currentTime, now>>
  /\ UNCHANGED <<messages, received, viewVars, showSourcePicker>>

\* the device clock of a running instance advances between events
TickDevice(dt) ==
  /\ DeviceRunning
  /\ currentTime + dt <= MaxTime
  /\ currentTime' = currentTime + dt
  /\ last' = "tickDevice"
  /\ UNCHANGED <<sessionVars, frameHist, fpsVars, gateVars, clockVars, now>>
  /\ UNCHANGED <<messages, received, viewVars, showSourcePicker>>

(* ---------------- server-reported errors ---------------- *)

error_fatal(data) ==
  /\ isConnected /\ greeted
  /\ addMessage(data.message, "error")
  /\ isConnected' = FALSE
  /\ last' = "error"
  /\ UNCHANGED <<isSharing, currentFrame, clientId, currentSharerId, isHost,
                 currentSharerIdRef, clientIdRef, greeted>>
  /\ UNCHANGED <<frameHist, fpsVars, gateVars, clockVars, currentTime, now,
                 received, viewVars, showSourcePicker>>

\* newSocket.on('error')
error(data) ==
  /\ isConnected /\ greeted
  /\ addMessage(data.message, "error")
  /\ last' = "error"
  /\ UNCHANGED <<sessionVars, frameHist, fpsVars, gateVars, clockVars, currentTime, now,
                 received, viewVars, showSourcePicker>>

\* newSocket.on('audio_error')
audio_error(data) ==
  /\ isConnected /\ greeted
  /\ addMessage(data.message, "error")
  /\ last' = "audio_error"
  /\ UNCHANGED <<sessionVars, frameHist, fpsVars, gateVars, clockVars, currentTime, now,
                 received, viewVars, showSourcePicker>>

(* ---------------- ScreenView, H.264 variant ---------------- *)

\* what every step of App leaves alone in a ScreenView step
appVars == <<sessionVars, frameHist, fpsVars, gateVars, clockVars, currentTime, now,
             messages, received, showSourcePicker>>

\* currentFrame.image as the feed effect reads it: App.jsx stores a Data URL
\* string in currentFrame, and a string has no property 'image' (undefined)
ImageField(frameValue) == Null

ShouldCreateDecoder_eager(video) ==
  currentFrame # Null /\ video # NoNode /\ jmuxerRef = NoDecoder

\* the condition of the lazy-initialisation effect
ShouldCreateDecoder(video) ==
  isSharing /\ currentFrame # Null /\ video # NoNode /\ jmuxerRef = NoDecoder

\* the surface of `{currentFrame && ...}`: unmounted without a frame, kept
\* while a frame stays, mounted anew when a frame appears
SurfaceAfterRender(surface) ==
  IF currentFrame = Null THEN NoNode
  ELSE IF surface = NoNode THEN mountCount + 1 ELSE surface

\* one render and commit of the H.264 ScreenView with its three effects in
\* source order; `created` tells whether `new JMuxer` succeeds
Commit264(created) ==
  /\ <<currentFrame, isSharing>> # <<viewFrame, viewSharing>>
  /\ LET video    == SurfaceAfterRender(videoRef)
         create   == ShouldCreateDecoder(video) /\ created
         afterE1  == IF create THEN decoderCount + 1 ELSE jmuxerRef
         destroy  == isSharing # viewSharing /\ ~isSharing /\ afterE1 # NoDecoder
         afterE2  == IF destroy THEN NoDecoder ELSE afterE1
         fedBase  == IF create \/ destroy THEN <<>> ELSE fed
         feed     == /\ currentFrame # viewFrame
                     /\ currentFrame # Null
                     /\ ImageField(currentFrame) # Null
                     /\ afterE2 # NoDecoder
     IN /\ video # videoRef /\ video # NoNode => mountCount < MaxMount
        /\ ShouldCreateDecoder(video) => decoderCount < MaxDecoders
        /\ videoRef' = video
        /\ mountCount' = IF video # videoRef /\ video # NoNode THEN mountCount + 1
                                                              ELSE mountCount
        /\ jmuxerRef' = afterE2
        /\ decoderCount' = IF create THEN decoderCount + 1 ELSE decoderCount
        /\ jmuxerNode' = IF create THEN video
                         ELSE IF destroy THEN NoNode ELSE jmuxerNode
        /\ fed' = IF feed THEN Append(fedBase, ImageField(currentFrame)) ELSE fedBase
  /\ viewFrame' = currentFrame
  /\ viewSharing' = isSharing
  /\ last' = "commit"
  /\ UNCHANGED <<appVars, jpegVars>>

(* ---------------- ScreenView, JPEG variant ---------------- *)

\* one render and commit of the JPEG ScreenView: the frame effect (cleanup,
\* then a new animation-frame request) and the clear-on-stop effect
CommitJpeg ==
  /\ <<currentFrame, isSharing>> # <<viewFrame, viewSharing>>
  /\ LET canvas == SurfaceAfterRender(canvasRef)
         pixels == IF canvas = canvasRef THEN canvasPixels ELSE Null
     IN /\ canvas # canvasRef /\ canvas # NoNode => mountCount < MaxMount
        /\ canvasRef' = canvas
        /\ mountCount' = IF canvas # canvasRef /\ canvas # NoNode THEN mountCount + 1
                                                                ELSE mountCount
        /\ rafPending' =
             IF currentFrame = viewFrame THEN rafPending
             ELSE IF currentFrame # Null THEN {[frame |-> currentFrame, stale |-> FALSE]}
             ELSE {}
        /\ canvasPixels' =
             IF isSharing # viewSharing /\ ~isSharing /\ canvas # NoNode
               THEN Null ELSE pixels
  /\ viewFrame' = currentFrame
  /\ viewSharing' = isSharing
  /\ last' = "commit"
  /\ UNCHANGED <<appVars, h264Vars, imgLoading>>

\* the animation-frame callback: renderFrame(currentFrame) starts an image decode
RafFire ==
  /\ rafPending # {}
  /\ Cardinality(imgLoading) < MaxLoading
  /\ rafPending' = {}
  /\ imgLoading' =
       IF canvasRef = NoNode THEN imgLoading
       ELSE imgLoading \cup {[canvas |-> canvasRef, frame |-> r.frame,
                              stale |-> r.stale] : r \in rafPending}
  /\ last' = "raf"
  /\ UNCHANGED <<appVars, h264Vars, viewFrame, viewSharing, mountCount,
                 canvasRef, canvasPixels>>

\* img.onload: resize and draw on the canvas captured by renderFrame
ImgLoaded(l) ==
  /\ l \in imgLoading
  /\ imgLoading' = imgLoading \ {l}
  /\ canvasPixels' = IF l.canvas = canvasRef THEN l.frame ELSE canvasPixels
  /\ last' = "img:onload"
  /\ UNCHANGED <<appVars, h264Vars, viewFrame, viewSharing, mountCount,
                 canvasRef, rafPending>>

\* the payload is no decodable image: onload never fires
ImgFailed(l) ==
  /\ l \in imgLoading
  /\ imgLoading' = imgLoading \ {l}
  /\ last' = "img:failed"
  /\ UNCHANGED <<appVars, h264Vars, viewFrame, viewSharing, mountCount,
                 canvasRef, canvasPixels, rafPending>>

(* ---------------- controls offered by the UI ---------------- *)

\* ScreenView (H.264): isSharer = currentSharerId && currentSharerId === clientId
isSharer == currentSharerId # Null /\ currentSharerId = clientId

\* the audio-unlock overlay, the only element whose activation calls
\* unlockAudio: rendered inside `{currentFrame && ...}` of the H.264 ScreenView
\* (the JPEG ScreenView renders no such element)
AudioUnlockOverlay == currentFrame # Null /\ ~audioUnlocked /\ ~isSharer

\* App: isMySharing={currentSharerId === clientId}
isMySharing == currentSharerId = clientId

StartSharingEnabled_takeoverOnly == isHost /\ isConnected /\ isSharing

\* ControlPanel: the start button is rendered for the host, disabled={!isConnected}
StartSharingEnabled == isHost /\ isConnected

\* ControlPanel: the stop button, disabled={!isConnected || !isMySharing}
StopSharingEnabled == isHost /\ isConnected /\ isMySharing

\* what a UI command leaves alone
commandFrame == <<sessionVars, frameHist, fpsVars, gateVars, clockVars, currentTime, now,
                  messages, received, viewVars>>

\* openSourcePicker, reached from the start button
openSourcePicker ==
  /\ StartSharingEnabled
  /\ showSourcePicker' = TRUE
  /\ last' = IF isConnected THEN "emit:get_sources" ELSE "picker:opened"
  /\ UNCHANGED commandFrame

\* SourcePicker onClose
closeSourcePicker ==
  /\ showSourcePicker
  /\ showSourcePicker' = FALSE
  /\ last' = "picker:closed"
  /\ UNCHANGED commandFrame

\* handleSelectSource, reached from the share button of the open SourcePicker
handleSelectSource ==
  /\ showSourcePicker
  /\ last' = IF isConnected THEN "emit:start_sharing" ELSE "select:ignored"
  /\ UNCHANGED <<commandFrame, showSourcePicker>>

\* handleStopSharing, reached from the stop button
handleStopSharing ==
  /\ StopSharingEnabled
  /\ last' = IF isConnected THEN "emit:stop_sharing" ELSE "stop:ignored"
  /\ UNCHANGED <<commandFrame, showSourcePicker>>

\* the start-time computation applied to every combination of clock, device
\* time and initialized flag on a grid: a connected viewer with a running
\* instance, about to receive chunks
StartGrid == { k * BUFFER_TIME : k \in 0..MaxGrid }

InitStartTime ==
  /\ isConnected = TRUE
  /\ isSharing = FALSE
  /\ currentFrame = Null
  /\ clientId = "abc123"
  /\ fps = 0
  /\ currentSharerId = Null
  /\ isHost = FALSE
  /\ isAudioEnabled = TRUE
  /\ audioUnlocked = TRUE
  /\ audioContextRef = 1
  /\ nextPlayTimeRef \in StartGrid
  /\ isAudioEnabledRef = TRUE
  /\ currentSharerIdRef = Null
  /\ clientIdRef = "abc123"
  /\ audioInitializedRef \in BOOLEAN
  /\ fpsCounterRef = [count |-> 0, lastTime |-> 0]
  /\ ctxState = [c \in CtxIds |-> IF c = 1 THEN "running" ELSE "none"]
  /\ ctxCount = 1
  /\ pendingResume = {}
  /\ currentTime \in StartGrid
  /\ now = 0
  /\ greeted = TRUE
  /\ last = "mount"
  /\ lastDuration = 0
  /\ chunkNo = 0
  /\ onScenarioC = TRUE
  /\ frameBeforeStart = FALSE
  /\ handover = FALSE
  /\ lastStartedId = Null
  /\ stoppedSinceStart = FALSE
  /\ hadFrameAtStart = FALSE
  /\ unlockCalls = 0
  /\ messages = <<>>
  /\ viewFrame = Null
  /\ viewSharing = FALSE
  /\ videoRef = NoNode
  /\ jmuxerRef = NoDecoder
  /\ jmuxerNode = NoNode
  /\ decoderCount = 0
  /\ fed = <<>>
  /\ received = <<>>
  /\ canvasRef = NoNode
  /\ canvasPixels = Null
  /\ rafPending = {}
  /\ imgLoading = {}
  /\ mountCount = 0
  /\ showSourcePicker = FALSE

(* ---------------- specifications ---------------- *)

SessionEvents ==
  \/ connect
  \/ disconnect
  \/ \E data \in ConnectedData : connected(data)
  \/ \E id \in Ids : sharing_started([sharer_id |-> id])
  \/ sharing_stopped

GateEvents ==
  \/ \E created \in CreateOutcomes : unlockAudio(created)
  \/ \E created \in CreateOutcomes : toggleAudio(created)
  \/ \E p \in pendingResume : ResumeFulfilled(p)
  \/ \E p \in pendingResume : ResumeRejected(p)

\* the session and the frame path (both clocks standing still)
Next ==
  \/ SessionEvents
  \/ \E image \in Images : frame([image |-> image])

Spec == Init /\ [][Next]_vars

\* the session and the audio path (both clocks standing still, every
\* AudioContext starting in state 'running')
NextEcho ==
  \/ SessionEvents
  \/ unlockAudio("running")
  \/ toggleAudio("running")
  \/ \E data \in AudioData : audio(data)

SpecEcho == Init /\ [][NextEcho]_vars

\* greetings of a viewer who joins while nobody shares
ViewerGreetings == { d \in ConnectedData : d.current_sharer = Null /\ ~d.is_host }

\* the audio path of a viewer against a moving device clock
NextClock ==
  \/ connect
  \/ \E data \in ViewerGreetings : connected(data)
  \/ GateEvents
  \/ \E data \in AudioData : audio(data)
  \/ \E dt \in DeviceTicks : TickDevice(dt)

SpecClock == Init /\ [][NextClock]_vars

\* the frame path against a moving wall clock
NextFps ==
  \/ connect
  \/ \E data \in ConnectedData : connected(data)
  \/ \E image \in Images : frame([image |-> image])
  \/ \E f \in ServerFps : stats([fps |-> f])
  \/ \E dt \in WallTicks : TickWall(dt)

SpecFps == Init /\ [][NextFps]_vars

\* a viewer's session rendered by the H.264 ScreenView
NextH264 ==
  \/ connect
  \/ disconnect
  \/ \E data \in ViewerGreetings : connected(data)
  \/ \E id \in Ids : sharing_started([sharer_id |-> id])
  \/ sharing_stopped
  \/ \E image \in Images : frame([image |-> image])
  \/ \E created \in BOOLEAN : Commit264(created)

SpecH264 == Init /\ [][NextH264]_vars

\* a viewer's session rendered by the JPEG ScreenView
NextJpeg ==
  \/ connect
  \/ disconnect
  \/ \E data \in ViewerGreetings : connected(data)
  \/ \E id \in Ids : sharing_started([sharer_id |-> id])
  \/ sharing_stopped
  \/ \E image \in Images : frame([image |-> image])
  \/ CommitJpeg
  \/ RafFire
  \/ \E l \in imgLoading : ImgLoaded(l)
  \/ \E l \in imgLoading : ImgFailed(l)

SpecJpeg == Init /\ [][NextJpeg]_vars

\* a viewer's session with frames, audio and server-reported errors
NextErrors ==
  \/ connect
  \/ \E data \in ViewerGreetings : connected(data)
  \/ \E id \in Ids : sharing_started([sharer_id |-> id])
  \/ sharing_stopped
  \/ \E image \in Images : frame([image |-> image])
  \/ unlockAudio("running")
  \/ \E data \in AudioData : audio(data)
  \/ \E text \in ErrorTexts : error([message |-> text])
  \/ \E text \in ErrorTexts : audio_error([message |-> text])

SpecErrors == Init /\ [][NextErrors]_vars

\* frames arriving around the audio activation gate
NextFrameGate ==
  \/ connect
  \/ \E data \in ViewerGreetings : connected(data)
  \/ \E image \in Images : frame([image |-> image])
  \/ \E dt \in WallTicks : TickWall(dt)
  \/ \E created \in CreateOutcomes : unlockAudio(created)
  \/ \E p \in pendingResume : ResumeFulfilled(p)
  \/ \E p \in pendingResume : ResumeRejected(p)

SpecFrameGate == Init /\ [][NextFrameGate]_vars

\* the session with the sharing commands of the UI
NextCommands ==
  \/ SessionEvents
  \/ openSourcePicker
  \/ closeSourcePicker
  \/ handleSelectSource
  \/ handleStopSharing

SpecCommands == Init /\ [][NextCommands]_vars

\* chunks scheduled from every start of the grid
NextStartTime == \E data \in AudioData : audio(data)

SpecStartTime == InitStartTime /\ [][NextStartTime]_vars

(* ---------------- properties ---------------- *)

AudioSteps == {"audio:dropped", "audio:skipped", "audio:scheduled"}
FrameSteps == {"frame", "frame:published"}

\* C1: an 'audio' event that arrives while the local participant is the
\* active sharer schedules nothing: the chunk is dropped and the playback
\* clock (next start time, initialized flag, chunk count) is left alone.
C1_EchoSuppressed ==
  [][(last' \in AudioSteps /\ clientId = currentSharerId)
       => /\ last' = "audio:dropped"
          /\ UNCHANGED <<nextPlayTimeRef, audioInitializedRef, chunkNo>>]_vars

\* a chunk was dropped for the echo test alone: audio is enabled and the
\* device is running
C1_Witness ==
  /\ last = "audio:dropped"
  /\ clientId = currentSharerId
  /\ isAudioEnabledRef
  /\ DeviceRunning

\* C2: after sharing_started(A) then sharing_started(B), A # B, a displayed
\* frame is never a payload received before B's event.
C2_NoStaleFrameAfterHandover ==
  handover => (currentFrame # Null => ~frameBeforeStart)

\* B took over while a frame of A was displayed, and a frame of B is shown now
C2_Witness ==
  /\ handover
  /\ hadFrameAtStart
  /\ currentFrame # Null
  /\ last \in FrameSteps

\* C3 (as claimed): after sharing_stopped and until the next sharing_started
\* no frame is displayed.
C3_NoFrameAfterStop ==
  stoppedSinceStart => currentFrame = Null

\* C4 (as claimed): nobody sharing implies no active sharer id.
C4_SharerNullWhenNotSharing ==
  ~isSharing => currentSharerId = Null

\* C5 (as claimed): every scheduled chunk leaves the next start time at or
\* above its previous value.
C5_ClockMonotone ==
  [][last' = "audio:scheduled" => nextPlayTimeRef' >= nextPlayTimeRef]_vars

\* C5 (amended): a scheduled chunk that does not trigger the drift resync
\* (next start time not beyond now + MAX_DRIFT) never lowers the next start
\* time.
C5_ClockMonotoneUnlessResync ==
  [][(last' = "audio:scheduled" /\ nextPlayTimeRef <= currentTime + MAX_DRIFT)
       => nextPlayTimeRef' >= nextPlayTimeRef]_vars

\* a chunk was appended behind an earlier one (start beyond now + buffer)
C5_Witness ==
  /\ last = "audio:scheduled"
  /\ chunkNo >= 2
  /\ nextPlayTimeRef - lastDuration > currentTime + BUFFER_TIME

\* C6: right after a chunk of duration d is scheduled, the next start time
\* is at most deviceNow + MAX_DRIFT + d.
C6_DriftBound ==
  last = "audio:scheduled" => nextPlayTimeRef <= currentTime + MAX_DRIFT + lastDuration

\* the backlog has grown past MAX_DRIFT, within the bound
C6_Witness ==
  /\ last = "audio:scheduled"
  /\ chunkNo >= 2
  /\ nextPlayTimeRef > currentTime + MAX_DRIFT

\* C7: on a fresh clock, 20ms chunks arriving at 0, 20, 40 start at 50, 70, 90:
\* the first at now + BUFFER_TIME, each later one where the previous ends.
C7_ScenarioC ==
  (onScenarioC /\ chunkNo >= 1)
    => /\ nextPlayTimeRef - lastDuration = <<50, 70, 90>>[chunkNo]
       /\ nextPlayTimeRef = <<70, 90, 110>>[chunkNo]

\* the third chunk of the scenario has been scheduled
C7_Witness ==
  /\ onScenarioC
  /\ chunkNo = 3
  /\ currentTime = 40
  /\ last = "audio:scheduled"

\* C8: a frame that closes a window of at least 1000ms publishes
\* fps = round(N * 1000 / elapsed), N the frames of the window, and resets the
\* counter to 0 with the window starting now.
C8_FpsPublished ==
  [][(last' \in FrameSteps /\ now - fpsCounterRef.lastTime >= FPS_WINDOW)
       => LET n == fpsCounterRef.count + 1
              e == now - fpsCounterRef.lastTime
          IN /\ 2 * fps' * e - e <= 2 * n * 1000
             /\ 2 * n * 1000 < 2 * fps' * e + e
             /\ fpsCounterRef' = [count |-> 0, lastTime |-> now]]_vars

\* three frames in a 1200ms window were published as 3 (2.5 rounds up)
C8_Witness ==
  /\ last = "frame:published"
  /\ now = 1200
  /\ fps = 3
  /\ fpsCounterRef = [count |-> 0, lastTime |-> 1200]

\* C9: unlockAudio on an existing pipeline keeps the instance, the next start
\* time and the initialized flag.
C9_UnlockIdempotent ==
  [][(last' = "unlock" /\ audioContextRef # NoCtx)
       => /\ audioContextRef' = audioContextRef
          /\ nextPlayTimeRef' = nextPlayTimeRef
          /\ audioInitializedRef' = audioInitializedRef]_vars

\* a second unlockAudio call came after a chunk was scheduled on the pipeline
C9_Witness ==
  /\ last = "unlock"
  /\ unlockCalls = 2
  /\ audioInitializedRef
  /\ nextPlayTimeRef > 0

\* C10: audioUnlocked turns true only in a step in which the instance that
\* unlockAudio examined is in state 'running': the live instance for the
\* synchronous branch, the promise's instance for the resume continuation.
C10_UnlockedOnlyWhenRunning ==
  [][(~audioUnlocked /\ audioUnlocked')
       => \/ /\ last' = "unlock"
             /\ audioContextRef' # NoCtx
             /\ ctxState'[audioContextRef'] = "running"
          \/ /\ last' = "resume:fulfilled"
             /\ \E p \in pendingResume \ pendingResume' :
                  p.by = "unlock" /\ ctxState'[p.ctx] = "running"]_vars

\* the only unlockAudio call found the instance suspended and the flag was
\* set by the fulfilled resume
C10_Witness ==
  /\ last = "resume:fulfilled"
  /\ audioUnlocked
  /\ ctxCount = 1
  /\ unlockCalls = 1
  /\ pendingResume = {}

\* C11: immediately after a 'disconnect' event the client is neither
\* connected nor sharing and the displayed frame is empty.
C11_DisconnectClearsFrame ==
  last = "disconnect" => (~isConnected /\ ~isSharing /\ currentFrame = Null)

\* C12: immediately after a 'disconnect' event the audio pipeline is gone,
\* the next start time is 0 and the initialized flag is false.
C12_DisconnectResetsAudio ==
  last = "disconnect"
    => (audioContextRef = NoCtx /\ nextPlayTimeRef = 0 /\ ~audioInitializedRef)

\* C13: disabling audio leaves no pipeline, clock 0 and initialized false, and
\* the first chunk scheduled on a pipeline created afterwards starts at
\* currentTime + BUFFER_TIME whatever the clock was before.
C13_NoStaleClockAcrossDisable ==
  [][/\ (last' = "toggle" /\ isAudioEnabled)
          => (audioContextRef' = NoCtx /\ nextPlayTimeRef' = 0 /\ ~audioInitializedRef')
     /\ (audioContextRef' # audioContextRef /\ audioContextRef' # NoCtx)
          => (nextPlayTimeRef' = 0 /\ ~audioInitializedRef')
     /\ (last' = "audio:scheduled" /\ ~audioInitializedRef)
          => nextPlayTimeRef' - lastDuration' = currentTime + BUFFER_TIME]_vars

\* the first chunk on the second pipeline, created after a disable closed the
\* first one, has just been scheduled
C13_Witness ==
  /\ last = "audio:scheduled"
  /\ chunkNo = 1
  /\ ctxCount = 2
  /\ ctxState[1] = "closed"
  /\ audioContextRef = 2
  /\ nextPlayTimeRef = currentTime + BUFFER_TIME + lastDuration

\* C18: when resume() of the live output pipeline is rejected, the unlocked
\* flag is false afterwards.
C18_LockedAfterRejection ==
  [][(/\ last' = "resume:rejected"
      /\ \E p \in pendingResume \ pendingResume' : p.ctx = audioContextRef)
       => ~audioUnlocked']_vars

\* C19: the echo test is evaluated on every chunk against the sharer of that
\* moment: with audio enabled a chunk is dropped exactly when the local
\* participant is the active sharer, so a change of sharer in either direction
\* takes effect on the next chunk without a reconnect.
C19_EchoTestPerChunk ==
  [][(last' \in AudioSteps /\ isAudioEnabledRef)
       => /\ (last' = "audio:dropped") <=> (clientId = currentSharerId)
          /\ (last' = "audio:scheduled") => (clientId # currentSharerId /\ DeviceRunning)]_vars

\* sharing passed from one participant to another who is not the local one,
\* and a chunk has been scheduled since
C19_Witness ==
  /\ last = "audio:scheduled"
  /\ handover
  /\ currentSharerId = lastStartedId
  /\ currentSharerId # clientId
  /\ clientId \in Ids

\* C14: in the H.264 ScreenView the payloads received while sharing are the
\* payloads fed to the decoder, once each and in arrival order: after every
\* commit that leaves a decoder, the fed sequence is the received sequence.
C14_EveryPayloadFed ==
  (last = "commit" /\ isSharing /\ jmuxerRef # NoDecoder) => fed = received

\* C15: no decoder exists at mount; a decoder appears only in a commit that
\* renders isSharing with a frame sample present; and a decoder exists only
\* while the committed view is sharing, so none survives the cleanup.
C15_DecoderLazy ==
  /\ [][(jmuxerRef' # jmuxerRef /\ jmuxerRef' # NoDecoder)
          => (last' = "commit" /\ isSharing /\ currentFrame # Null)]_vars
  /\ [](last = "mount" => jmuxerRef = NoDecoder)
  /\ [](jmuxerRef # NoDecoder => (viewSharing /\ jmuxerNode # NoNode))

\* the cleanup of a stop destroyed a decoder, and the commit of a late frame
\* (after the stop) has mounted a video element without creating another
C15_Witness ==
  /\ last = "commit"
  /\ ~isSharing
  /\ currentFrame # Null
  /\ videoRef # NoNode
  /\ decoderCount = 1
  /\ jmuxerRef = NoDecoder

\* C16: no image decode that was requested (by an animation-frame callback
\* or already in flight) before a sharing_stopped event draws after it.
C16_NoDrawAfterStop ==
  [][last' = "img:onload" => \A l \in imgLoading \ imgLoading' : ~l.stale]_vars

\* C17: an 'error' or 'audio_error' event appends its message as one log
\* entry of type error and changes nothing else, and every handler that was
\* able to run before is able to run afterwards.
C17_ErrorsOnlyLog ==
  /\ [][last' \in {"error", "audio_error"}
          => /\ \E text \in ErrorTexts :
                  messages' = LastN(Append(messages, [text |-> text, type |-> "error"]),
                                    MaxLog)
             /\ UNCHANGED <<sessionVars, currentFrame, fpsVars, gateVars, clockVars,
                            currentTime, received, viewVars>>]_vars
  /\ [](last \in {"error", "audio_error"}
          => /\ ENABLED sharing_stopped
             /\ ENABLED (\E id \in Ids : sharing_started([sharer_id |-> id]))
             /\ ENABLED (\E data \in AudioData : audio(data))
             /\ ENABLED (\E text \in ErrorTexts : error([message |-> text]))
             /\ ENABLED (\E text \in ErrorTexts : audio_error([message |-> text]))
             /\ fpsCounterRef.count < MaxCount
                  => ENABLED (\E image \in Images : frame([image |-> image])))

\* an error arrived in the middle of a session: sharing, a frame on display
\* and a playback clock that has scheduled a chunk
C17_Witness ==
  /\ last = "audio_error"
  /\ isConnected
  /\ isSharing
  /\ currentFrame # Null
  /\ audioInitializedRef
  /\ nextPlayTimeRef > 0
  /\ Len(messages) > 0
  /\ messages[Len(messages)].type = "error"

\* C20: a 'frame' event displays its payload and counts it in the throughput
\* window by the wall clock alone, and leaves the audio gate and the playback
\* clock as they were, whatever the gate and the pipeline are.
C20_FrameNotGated ==
  [][last' \in FrameSteps
       => /\ currentFrame' \in { DataUrl(image) : image \in Images }
          /\ fpsCounterRef' =
               IF now - fpsCounterRef.lastTime >= FPS_WINDOW
                 THEN [count |-> 0, lastTime |-> now]
                 ELSE [count |-> fpsCounterRef.count + 1,
                       lastTime |-> fpsCounterRef.lastTime]
          /\ UNCHANGED <<gateVars, clockVars>>]_vars

\* a frame is displayed and counted while the gate is locked and no output
\* pipeline exists
C20_Witness ==
  /\ last = "frame"
  /\ ~audioUnlocked
  /\ audioContextRef = NoCtx
  /\ currentFrame # Null
  /\ fpsCounterRef.count > 0

\* C21: whenever the gate is locked and the local participant is not the
\* active sharer, the audio-unlock overlay is rendered.
C21_UnlockOffered ==
  (~audioUnlocked /\ ~isSharer) => AudioUnlockOverlay

\* C22: the greeting connected{client_id: "abc123", current_sharer: null,
\* is_host: true} applied to the initial session (just after the first
\* 'connect') leaves the client connected, the start control enabled and no
\* frame on display.
C22_ScenarioA ==
  [][(/\ last = "connect" /\ clientId = ""
      /\ last' = "connected"
      /\ clientId' = "abc123" /\ currentSharerId' = Null /\ isHost')
       => (isConnected' /\ StartSharingEnabled' /\ currentFrame' = Null /\ ~isSharing')]_vars

\* the first greeting of the behaviour was the one of scenario A
C22_Witness ==
  /\ last = "connected"
  /\ Len(messages) = 1
  /\ clientId = "abc123"
  /\ currentSharerId = Null
  /\ isHost
  /\ StartSharingEnabled

\* C27: stop_sharing is emitted only when the client is connected and is the
\* active sharer, start_sharing only when it is connected and is the host.
C27_CommandsGuarded ==
  [][/\ last' = "emit:stop_sharing" => (isConnected /\ isMySharing)
     /\ last' = "emit:start_sharing" => (isConnected /\ isHost)]_vars

\* the start time of spec.md 4.3, steps 3 to 5: a three-way if / else-if / else
SpecStartTimeOf(tNext, tNow, initialized) ==
  IF ~initialized \/ tNext < tNow THEN tNow + BUFFER_TIME
  ELSE IF tNext > tNow + MAX_DRIFT THEN tNow + BUFFER_TIME
  ELSE tNext

\* the initialized flag of spec.md 4.3: marked in step 3, kept otherwise
SpecInitializedOf(tNext, tNow, initialized) ==
  IF ~initialized \/ tNext < tNow THEN TRUE ELSE initialized

\* C23: for every clock value, device time and initialized flag, a scheduled
\* chunk starts where the three-way rule of the specification puts it and
\* leaves the initialized flag the rule leaves.
C23_StartTimeRefines ==
  [][last' = "audio:scheduled"
       => /\ nextPlayTimeRef' - lastDuration'
               = SpecStartTimeOf(nextPlayTimeRef, currentTime, audioInitializedRef)
          /\ audioInitializedRef'
               = SpecInitializedOf(nextPlayTimeRef, currentTime, audioInitializedRef)]_vars

\* the first chunk of a behaviour was appended gaplessly to a clock ahead of
\* the device time by more than the buffer and at most the drift ceiling
C23_Witness ==
  /\ last = "audio:scheduled"
  /\ chunkNo = 1
  /\ lastDuration > 0
  /\ nextPlayTimeRef - lastDuration > currentTime + BUFFER_TIME
  /\ nextPlayTimeRef - lastDuration <= currentTime + MAX_DRIFT

\* C24: a chunk that reaches the scheduler while no instance exists or the
\* instance is not running schedules nothing and leaves the playback clock
\* and the initialized flag as they were.
C24_NoPipelineNoOp ==
  [][(last' \in AudioSteps /\ ~(audioContextRef # NoCtx /\ ctxState[audioContextRef] = "running"))
       => /\ last' # "audio:scheduled"
          /\ UNCHANGED <<nextPlayTimeRef, audioInitializedRef, lastDuration, chunkNo>>]_vars

\* a chunk passed the echo test with audio enabled and was skipped because
\* the instance is suspended
C24_Witness ==
  /\ last = "audio:skipped"
  /\ isAudioEnabledRef
  /\ clientId # currentSharerId
  /\ audioContextRef # NoCtx
  /\ ctxState[audioContextRef] = "suspended"

\* C25: a live decoder is attached to the video element that is mounted.
C25_DecoderOnMountedSurface ==
  (jmuxerRef # NoDecoder /\ videoRef # NoNode) => jmuxerNode = videoRef

\* C26: the unlocked flag is set only while an AudioContext instance exists.
C26_UnlockedImpliesPipeline ==
  audioUnlocked => audioContextRef # NoCtx

\* C28: after every handler the refs equal the state they mirror.
C28_RefsMirrorState ==
  /\ currentSharerIdRef = currentSharerId
  /\ clientIdRef = clientId
  /\ isAudioEnabledRef = isAudioEnabled
  /\ IsSelfSharer <=> (currentSharerId = clientId)

\* every mirrored pair has left its initial value: a greeted client, a sharer
\* announced, audio disabled
C28_Witness ==
  /\ last = "sharing_started"
  /\ clientIdRef \in Ids
  /\ currentSharerIdRef \in Ids
  /\ ~isAudioEnabledRef
  /\ ~isAudioEnabled

====
